---- MODULE Spec2Model ----
(***************************************************************************)
(* Model of the repository SDK: PaginationMetadata (entity.go), the        *)
(* Pagination scope and the generic gorm repository (gorm.go).             *)
(*                                                                         *)
(* Go's int is a fixed-width two's-complement integer.  It is modelled as  *)
(* a little-endian sequence of NumLimbs limbs of LimbBits bits, so that    *)
(* every value of the type is representable and arithmetic wraps exactly   *)
(* as the machine's does.                                                  *)
(***************************************************************************)
EXTENDS Integers, Sequences, FiniteSets, TLC

VARIABLES meta, table, entities, call, tx, ent, cache

vars == <<meta, table, entities, call, tx, ent, cache>>

----------------------------------------------------------------------------
(* Machine integers *)

\* width of Go's int on the 64-bit targets
IntBits == 64

LimbBits == 8

LimbBase == 2 ^ LimbBits

NumLimbs == IntBits \div LimbBits

RECURSIVE ToLimbs(_, _)
ToLimbs(n, k) ==
    IF k = 0 THEN <<>> ELSE <<n % LimbBase>> \o ToLimbs(n \div LimbBase, k - 1)

\* the int whose value is the (small) integer n
I(n) == ToLimbs(n, NumLimbs)

IsNeg(x) == x[NumLimbs] >= LimbBase \div 2

MaxInt == [i \in 1..NumLimbs |-> IF i = NumLimbs THEN LimbBase \div 2 - 1 ELSE LimbBase - 1]

MinInt == [i \in 1..NumLimbs |-> IF i = NumLimbs THEN LimbBase \div 2 ELSE 0]

RECURSIVE AddC(_, _, _, _)
AddC(x, y, c, i) ==
    IF i > NumLimbs THEN <<>>
    ELSE LET s == x[i] + y[i] + c
         IN  <<s % LimbBase>> \o AddC(x, y, s \div LimbBase, i + 1)

\* x + y, wrapping
Add(x, y) == AddC(x, y, 0, 1)

Not(x) == [i \in 1..NumLimbs |-> LimbBase - 1 - x[i]]

\* x - y, wrapping
Sub(x, y) == AddC(x, Not(y), 1, 1)

\* the small integer an int holds (defined where IsSmall)
Val(x) ==
    LET mag == IF IsNeg(x) THEN Sub(I(0), x) ELSE x
        lo  == mag[1] + LimbBase * (mag[2] + LimbBase * mag[3])
    IN  IF IsNeg(x) THEN 0 - lo ELSE lo

IsSmall(x) ==
    LET mag == IF IsNeg(x) THEN Sub(I(0), x) ELSE x
    IN  /\ ~IsNeg(mag)
        /\ \A i \in 4..NumLimbs : mag[i] = 0

RECURSIVE ULess(_, _, _)
ULess(x, y, i) ==
    IF i = 0 THEN FALSE
    ELSE IF x[i] # y[i] THEN x[i] < y[i]
    ELSE ULess(x, y, i - 1)

\* x < y on signed ints
Less(x, y) ==
    IF IsNeg(x) # IsNeg(y) THEN IsNeg(x) ELSE ULess(x, y, NumLimbs)

RECURSIVE MulLimb(_, _, _, _)
MulLimb(x, d, c, i) ==
    IF i > NumLimbs THEN <<>>
    ELSE LET s == x[i] * d + c
         IN  <<s % LimbBase>> \o MulLimb(x, d, s \div LimbBase, i + 1)

ShiftLimbs(x, k) == [i \in 1..NumLimbs |-> IF i <= k THEN 0 ELSE x[i - k]]

RECURSIVE MulAcc(_, _, _)
MulAcc(x, y, j) ==
    IF j > NumLimbs THEN I(0)
    ELSE Add(ShiftLimbs(MulLimb(x, y[j], 0, 1), j - 1), MulAcc(x, y, j + 1))

\* x * y, wrapping
Mul(x, y) == MulAcc(x, y, 1)

----------------------------------------------------------------------------
(* PaginationMetadata *)

MinItemsPerPage == 10

MaxItemsPerPage == 100

MinCurrentPage == 1

GetItemPerPageNoMax(p) ==
    LET p1 == IF Less(p.ItemsPerPage, I(MinItemsPerPage))
              THEN [p EXCEPT !.ItemsPerPage = I(MinItemsPerPage)] ELSE p
    IN  [p |-> p1, ret |-> p1.ItemsPerPage]

GetItemPerPage(p) ==
    LET p1 == IF Less(p.ItemsPerPage, I(MinItemsPerPage))
              THEN [p EXCEPT !.ItemsPerPage = I(MinItemsPerPage)] ELSE p
        p2 == IF Less(I(MaxItemsPerPage), p1.ItemsPerPage)
              THEN [p1 EXCEPT !.ItemsPerPage = I(MaxItemsPerPage)] ELSE p1
    IN  [p |-> p2, ret |-> p2.ItemsPerPage]

GetCurrentPageFromZero(p) ==
    LET p1 == IF Less(p.CurrentPage, I(0))
              THEN [p EXCEPT !.CurrentPage = I(MinCurrentPage)] ELSE p
    IN  [p |-> p1, ret |-> p1.CurrentPage]

GetCurrentPage(p) ==
    LET p1 == IF Less(p.CurrentPage, I(MinCurrentPage))
              THEN [p EXCEPT !.CurrentPage = I(MinCurrentPage)] ELSE p
    IN  [p |-> p1, ret |-> p1.CurrentPage]

GetOffsetOneBased(p) ==
    LET r1 == GetCurrentPage(p)
        r2 == GetItemPerPage(r1.p)
    IN  [p |-> r2.p, ret |-> Mul(r1.ret, r2.ret)]

\* (p.GetCurrentPage() - 1) * p.GetItemPerPage(): the calls run left to right
GetOffset(p) ==
    LET r1 == GetCurrentPage(p)
        r2 == GetItemPerPage(r1.p)
    IN  [p |-> r2.p, ret |-> Mul(Sub(r1.ret, I(1)), r2.ret)]

CalItemPerPage(p) ==
    IF Less(p.ItemCount, p.ItemsPerPage)
    THEN [p EXCEPT !.ItemsPerPage = p.ItemCount] ELSE p

----------------------------------------------------------------------------
(* The store behind *gorm.DB: a table is the sequence of its rows, in the  *)
(* order the store returns them; a row is [id |-> identifier, val |-> fields, *)
(* deleted |-> whether its deletion timestamp is set]                      *)

\* the rows a statement sees: gorm leaves out the soft-deleted ones
Visible(t) == SelectSeq(t, LAMBDA r : ~r.deleted)

\* SELECT count(*): the number of rows
Count(t) == Len(Visible(t))

\* the rows a query with OFFSET offset LIMIT limit returns; the query builder
\* writes OFFSET only for a positive offset
Query(t, offset, limit) ==
    LET rows == Visible(t)
        n    == Len(rows)
        skip == IF ~Less(I(0), offset) THEN 0
                ELSE IF IsSmall(offset) /\ Val(offset) < n THEN Val(offset)
                ELSE n
        last == IF skip + Val(limit) < n THEN skip + Val(limit) ELSE n
    IN  SubSeq(rows, skip + 1, last)

CeilDivTruncating(n, d) == n \div d

\* math.Ceil(float64(n) / float64(d)), exact for the row counts of a table
CeilDiv(n, d) == IF n % d = 0 THEN n \div d ELSE n \div d + 1

\* Pagination(meta, db): the count and the totals run when the scope is built;
\* the error of the count query is not looked at and leaves totalItems at 0
Pagination(p, t, countOk) ==
    LET totalItems == IF countOk THEN Count(t) ELSE 0
        p1 == [p EXCEPT !.TotalItem = I(totalItems)]
        r  == GetItemPerPage(p1)
    IN  [r.p EXCEPT !.TotalPage = I(CeilDiv(totalItems, Val(r.ret)))]

\* the scope Pagination returns: db.Offset(meta.GetOffset()).Limit(meta.ItemsPerPage)
PaginationScope(p) ==
    LET r == GetOffset(p)
    IN  [p |-> r.p, offset |-> r.ret, limit |-> r.p.ItemsPerPage]

FindAllCountingTotal(p, t, out, countOk, findOk) ==
    LET p1   == Pagination(p, t, countOk)
        sc   == PaginationScope(p1)
        rows == Query(t, sc.offset, sc.limit)
    IN  IF ~findOk
        THEN [p |-> sc.p, out |-> out, err |-> "QueryError",
              offset |-> sc.offset, limit |-> sc.limit]
        ELSE [p |-> [sc.p EXCEPT !.ItemCount = sc.p.TotalItem], out |-> rows, err |-> "nil",
              offset |-> sc.offset, limit |-> sc.limit]

\* FindAll(metadata, entities)
FindAll(p, t, out, countOk, findOk) ==
    LET p1   == Pagination(p, t, countOk)
        sc   == PaginationScope(p1)
        rows == Query(t, sc.offset, sc.limit)
    IN  IF ~findOk
        THEN [p |-> sc.p, out |-> out, err |-> "QueryError",
              offset |-> sc.offset, limit |-> sc.limit]
        ELSE [p |-> [sc.p EXCEPT !.ItemCount = I(Len(rows))], out |-> rows, err |-> "nil",
              offset |-> sc.offset, limit |-> sc.limit]

----------------------------------------------------------------------------
(* Entities and CRUD.  An entity is [kind, ID, val]: kind is the base     *)
(* struct it embeds, ID is NilID or a UUID, val stands for its other       *)
(* fields ("" is their zero value).  First(&entity, "id = ?", id) is taken *)
(* to look the record up by id alone and Where(id, "id = ?", id) to narrow *)
(* the statement to the primary key id.                                    *)

\* b.ID == nil
NilID == 0

EntityKinds == {"Base", "BaseHardDelete"}

BaseBeforeCreateAlways(e, u) == [e EXCEPT !.ID = u]

\* Base.BeforeCreate; u is what uuid.New() returns
BaseBeforeCreate(e, u) == IF e.ID = NilID THEN [e EXCEPT !.ID = u] ELSE e

\* BaseHardDelete.BeforeCreate
BaseHardDeleteBeforeCreate(e, u) == IF e.ID = NilID THEN [e EXCEPT !.ID = u] ELSE e

\* the hook gorm runs before it inserts the entity
BeforeCreate(e, u) ==
    IF e.kind = "Base" THEN BaseBeforeCreate(e, u) ELSE BaseHardDeleteBeforeCreate(e, u)

HasRow(t, id) == \E k \in 1..Len(t) : t[k].id = id /\ ~t[k].deleted

RowOf(t, id) == t[CHOOSE k \in 1..Len(t) : t[k].id = id /\ ~t[k].deleted]

\* the record as First scans it into the entity
Scan(e, row) == [e EXCEPT !.ID = row.id, !.val = row.val]

\* Create(entity): the primary key is unique over all rows, deleted or not
Create(t, e, u) ==
    LET e1 == BeforeCreate(e, u)
    IN  IF \E k \in 1..Len(t) : t[k].id = e1.ID
        THEN [t |-> t, e |-> e1, err |-> "ConstraintViolation"]
        ELSE [t |-> Append(t, [id |-> e1.ID, val |-> e1.val, deleted |-> FALSE]),
              e |-> e1, err |-> "nil"]

\* FindOne(id, entity)
FindOne(t, id, e) ==
    IF HasRow(t, id) THEN [t |-> t, e |-> Scan(e, RowOf(t, id)), err |-> "nil"]
    ELSE [t |-> t, e |-> e, err |-> "RecordNotFound"]

UpdatesEveryRow(t, id, e) ==
    [k \in 1..Len(t) |->
        IF ~t[k].deleted /\ e.val # "" THEN [t[k] EXCEPT !.val = e.val] ELSE t[k]]

\* Updates(&entity): the non-zero fields are written to the rows the statement matches
Updates(t, id, e) ==
    [k \in 1..Len(t) |->
        IF t[k].id = id /\ ~t[k].deleted /\ e.val # "" THEN [t[k] EXCEPT !.val = e.val]
        ELSE t[k]]

UpdateInserting(t, id, e) ==
    IF HasRow(t, id)
    THEN [t |-> Updates(t, id, e), e |-> Scan(e, RowOf(Updates(t, id, e), id)), err |-> "nil"]
    ELSE [t |-> Append(t, [id |-> id, val |-> e.val, deleted |-> FALSE]),
          e |-> e, err |-> "RecordNotFound"]

\* Update(id, entity): Where(...).Updates(&entity).First(&entity, "id = ?", id)
Update(t, id, e) ==
    LET t1 == Updates(t, id, e)
    IN  IF HasRow(t1, id) THEN [t |-> t1, e |-> Scan(e, RowOf(t1, id)), err |-> "nil"]
        ELSE [t |-> t1, e |-> e, err |-> "RecordNotFound"]

\* Delete(&entity): a soft delete for an entity with a deletion timestamp
Remove(t, e) ==
    IF e.kind = "Base"
    THEN [k \in 1..Len(t) |->
             IF t[k].id = e.ID /\ ~t[k].deleted THEN [t[k] EXCEPT !.deleted = TRUE]
             ELSE t[k]]
    ELSE SelectSeq(t, LAMBDA r : r.id # e.ID)

DeleteUnread(t, id, e) ==
    [t |-> Remove(t, [e EXCEPT !.ID = id]), e |-> e, err |-> "nil"]

\* Delete(id, entity): First(&entity, "id = ?", id).Delete(&entity); nothing runs
\* after a failed First
Delete(t, id, e) ==
    IF HasRow(t, id)
    THEN LET e1 == Scan(e, RowOf(t, id))
         IN  [t |-> Remove(t, e1), e |-> e1, err |-> "nil"]
    ELSE [t |-> t, e |-> e, err |-> "RecordNotFound"]

----------------------------------------------------------------------------
(* The cache.  The server's data maps each key to an entry                 *)
(* [type, doc, src, fields, ttl]: type is "none" for an absent key,        *)
(* "string" with the stored document doc, or "hash" with fields; ttl is    *)
(* the seconds left, 0 for a key that does not expire.  src remembers the  *)
(* Go value the document was made from; the server does not hold it.       *)
(* A Go value is [X, y]: X an exported float64 field, y an unexported one. *)
(* Every command reaches the server.                                       *)

\* the key the calls are about
Keys == {"k1"}

Fields == {"f1", "f2"}

HashVals == {"a", "b"}

\* the reply for a field that is not there
Nil == "(nil)"

Values == [X : {"0", "1", "NaN"}, y : {"0", "1"}]

NoValue == [X |-> "0", y |-> "0"]

NoDoc == [X |-> "0"]

NoFields == [f \in Fields |-> Nil]

Absent == [type |-> "none", doc |-> NoDoc, src |-> NoValue, fields |-> NoFields, ttl |-> 0]

\* json.Marshal: exported fields only; NaN cannot be encoded
Marshal(v) ==
    IF v.X = "NaN" THEN [doc |-> NoDoc, err |-> "UnsupportedValueError"]
    ELSE [doc |-> [X |-> v.X], err |-> "nil"]

UnmarshalNothing(doc, out) == out

\* json.Unmarshal: sets the fields the document names, leaves the others
Unmarshal(doc, out) == [out EXCEPT !.X = doc.X]

\* client.Set(key, v, d): positive d is the expiration, otherwise none
Set(d, k, doc, v, ttl) ==
    [d EXCEPT ![k] = [type |-> "string", doc |-> doc, src |-> v, fields |-> NoFields,
                      ttl |-> IF ttl > 0 THEN ttl ELSE 0]]

\* value map[string]string, and the one pair field, value
OneField(f, v) == [g \in Fields |-> IF g = f THEN v ELSE Nil]

\* client.HSet(key, ...)
HSet(d, k, m) ==
    IF \A f \in Fields : m[f] = Nil THEN [d |-> d, err |-> "ERR wrong number of arguments"]
    ELSE IF d[k].type = "string" THEN [d |-> d, err |-> "WRONGTYPE"]
    ELSE [d |-> [d EXCEPT ![k] =
                    [type |-> "hash", doc |-> NoDoc, src |-> NoValue,
                     fields |-> [f \in Fields |->
                                   IF m[f] # Nil THEN m[f] ELSE d[k].fields[f]],
                     ttl |-> d[k].ttl]],
          err |-> "nil"]

\* client.Expire(key, d): a timeout that is not positive deletes the key
Expire(d, k, ttl) ==
    IF d[k].type = "none" THEN d
    ELSE IF ttl <= 0 THEN [d EXCEPT ![k] = Absent]
    ELSE [d EXCEPT ![k].ttl = ttl]

\* SaveCache(key, value, ttl)
SaveCache(d, k, v, ttl) ==
    LET j == Marshal(v)
    IN  IF j.err # "nil" THEN [d |-> d, err |-> j.err]
        ELSE [d |-> Set(d, k, j.doc, v, ttl), err |-> "nil"]

\* the ttl handling shared by SaveHashCache and SaveAllHashCache
SaveFields(impl, d, k, m, ttl) ==
    LET h == HSet(d, k, m)
    IN  IF h.err # "nil" THEN [d |-> d, err |-> h.err, expire |-> FALSE]
        ELSE IF impl = "current" /\ ~(ttl > 0)
             THEN [d |-> h.d, err |-> "nil", expire |-> FALSE]
        ELSE [d |-> Expire(h.d, k, ttl), err |-> "nil", expire |-> TRUE]

\* SaveHashCache(key, field, value, ttl)
SaveHashCache(impl, d, k, f, v, ttl) == SaveFields(impl, d, k, OneField(f, v), ttl)

\* SaveAllHashCache(key, value, ttl)
SaveAllHashCache(impl, d, k, m, ttl) == SaveFields(impl, d, k, m, ttl)

\* GetHashCache(key, field)
GetHashCache(d, k, f) ==
    IF d[k].type = "string" THEN [str |-> "", err |-> "WRONGTYPE"]
    ELSE IF d[k].fields[f] = Nil THEN [str |-> "", err |-> "redis.Nil"]
    ELSE [str |-> d[k].fields[f], err |-> "nil"]

\* GetAllHashCache(key): HGETALL of a key that is not there is an empty map
GetAllHashCache(d, k) ==
    IF d[k].type = "string" THEN [map |-> NoFields, err |-> "WRONGTYPE"]
    ELSE [map |-> d[k].fields, err |-> "nil"]

RemoveHashCacheStrict(d, k, f) ==
    IF d[k].type = "hash" /\ d[k].fields[f] # Nil
    THEN [d |-> [d EXCEPT ![k] = Absent], err |-> "nil"]
    ELSE [d |-> d, err |-> "redis.Nil"]

\* RemoveHashCache(key, field): HDEL; a hash without fields is no key
RemoveHashCache(d, k, f) ==
    IF d[k].type = "string" THEN [d |-> d, err |-> "WRONGTYPE"]
    ELSE IF d[k].type = "none" THEN [d |-> d, err |-> "nil"]
    ELSE LET fs == [d[k].fields EXCEPT ![f] = Nil]
         IN  IF fs = NoFields THEN [d |-> [d EXCEPT ![k] = Absent], err |-> "nil"]
             ELSE [d |-> [d EXCEPT ![k].fields = fs], err |-> "nil"]

\* GetCache(key, value)
GetCache(d, k, out) ==
    IF d[k].type = "none" THEN [out |-> out, err |-> "redis.Nil"]
    ELSE IF d[k].type = "hash" THEN [out |-> out, err |-> "WRONGTYPE"]
    ELSE [out |-> Unmarshal(d[k].doc, out), err |-> "nil"]

\* RemoveCache(key): DEL
RemoveCache(d, k) == [d |-> [d EXCEPT ![k] = Absent], err |-> "nil"]

\* SetExpire(key, ttl)
SetExpire(d, k, ttl) == [d |-> Expire(d, k, ttl), err |-> "nil"]

\* Exist(key)
Exist(d, k) == [ok |-> d[k].type # "none", err |-> "nil"]

\* a second passes on the server
Expiry(d) ==
    [k \in Keys |-> IF d[k].ttl = 1 THEN Absent
                    ELSE IF d[k].ttl > 1 THEN [d[k] EXCEPT !.ttl = @ - 1]
                    ELSE d[k]]

----------------------------------------------------------------------------
(* WithTransaction.  A supplied function is [id, val, res]: it writes val  *)
(* under id through the transaction handle and then returns nil, returns   *)
(* an error or panics.  The error (panic value) of the i-th function is    *)
(* <<"error", i>> (<<"panic", i>>), so that values are told apart by       *)
(* origin.  A panic carries a non-nil value, as every runtime fault does.  *)
(* sql.Tx: Commit and Rollback of a finished transaction return ErrTxDone  *)
(* and change nothing.  Begin is taken to succeed.                         *)

FnResults == {"nil", "error", "panic"}

HasId(t, id) == \E k \in 1..Len(t) : t[k].id = id

\* the write a supplied function makes: insert or overwrite the row id
Put(t, id, val) ==
    IF HasId(t, id)
    THEN [k \in 1..Len(t) |->
             IF t[k].id = id THEN [id |-> id, val |-> val, deleted |-> FALSE] ELSE t[k]]
    ELSE Append(t, [id |-> id, val |-> val, deleted |-> FALSE])

NoTx ==
    [pc |-> "idle", fns |-> <<>>, i |-> 0, state |-> "none", work |-> <<>>,
     before |-> <<>>, calls |-> <<>>, log |-> <<>>, panicking |-> <<>>, ret |-> <<>>,
     outcome |-> "none", value |-> <<>>, handle |-> "none", handles |-> <<>>]

\* tx := r.db.Begin()
Begin(fns, t) ==
    [NoTx EXCEPT !.pc = "loop", !.fns = fns, !.i = 1, !.state = "open", !.work = t,
                 !.before = t, !.log = <<"Begin">>, !.handle = "tx"]

\* tx.Rollback()
Rollback(x) ==
    IF x.state = "open"
    THEN [x EXCEPT !.state = "rolledback", !.log = Append(@, "Rollback")]
    ELSE [x EXCEPT !.log = Append(@, "RollbackDone")]

\* tx.Commit().Error: nil, the store's error, or ErrTxDone
CommitError(x, commitOk) ==
    IF x.state # "open" THEN <<"ErrTxDone">>
    ELSE IF commitOk THEN <<>> ELSE <<"CommitError">>

\* tx.Commit()
Commit(x, commitOk) ==
    IF x.state # "open" THEN [x EXCEPT !.log = Append(@, "CommitDone")]
    ELSE IF commitOk THEN [x EXCEPT !.state = "committed", !.log = Append(@, "Commit")]
    ELSE [x EXCEPT !.state = "failed", !.log = Append(@, "CommitFailed")]

FnReturnedErrorContinuing(x, e) == [Rollback(x) EXCEPT !.ret = e, !.i = @ + 1]

FnReturnedErrorNoRollback(x, e) == [x EXCEPT !.ret = e, !.pc = "defer"]

\* if err := fn(tx); err != nil { tx.Rollback(); return err }
FnReturnedError(x, e) == [Rollback(x) EXCEPT !.ret = e, !.pc = "defer"]

\* one iteration of the loop over fns
RunFn(x) ==
    LET f == x.fns[x.i]
        y == [x EXCEPT !.work = Put(@, f.id, f.val), !.calls = Append(@, x.i),
                       !.handles = Append(@, x.handle)]
    IN  IF f.res = "panic" THEN [y EXCEPT !.panicking = <<"panic", x.i>>, !.pc = "defer"]
        ELSE IF f.res = "error" THEN FnReturnedError(y, <<"error", x.i>>)
        ELSE [y EXCEPT !.i = @ + 1]

\* the loop is over: return nil
LoopDone(x) == [x EXCEPT !.ret = <<>>, !.pc = "defer"]

RecoveredSwallowing(x) ==
    [Rollback(x) EXCEPT !.pc = "done", !.outcome = "return", !.value = <<>>]

\* the deferred function when recover() returns a value: roll back, panic again
Recovered(x) ==
    [Rollback(x) EXCEPT !.pc = "done", !.outcome = "panic", !.value = x.panicking]

\* the deferred function when nothing was recovered: commit; on an error of the
\* commit roll back and panic with it
NotRecovered(x, commitOk) ==
    LET err == CommitError(x, commitOk)
        y   == Commit(x, commitOk)
    IN  IF err # <<>>
        THEN [Rollback(y) EXCEPT !.pc = "done", !.outcome = "panic", !.value = err]
        ELSE [y EXCEPT !.pc = "done", !.outcome = "return", !.value = x.ret]

Deferred(x, commitOk) ==
    IF x.panicking # <<>> THEN Recovered(x) ELSE NotRecovered(x, commitOk)

\* what the store holds once the transaction is finished
Stored(t, x) == IF x.state = "committed" THEN x.work ELSE t

----------------------------------------------------------------------------
(* State *)

\* no entity in hand, no cache client
NoEntity == [kind |-> "none", ID |-> NilID, val |-> ""]

NoCache == [impl |-> "none", data |-> <<>>]

NoCall ==
    [op |-> "none", pre |-> <<>>, ret |-> I(0), limit |-> I(0), err |-> "nil",
     countOk |-> TRUE, findOk |-> TRUE, got |-> FALSE]

SmallItemsPerPage == {0 - 3, 0, 9, 10, 50, 100, 101}

SmallCurrentPage == {0 - 2, 0, 1, 2, 5}

RawItemsPerPage == {I(n) : n \in SmallItemsPerPage} \cup {MinInt, MaxInt}

RawCurrentPage == {I(n) : n \in SmallCurrentPage} \cup {MinInt, MaxInt}

ListSizes == {0, 5, 47, 120}

TableOfSize(n) == [i \in 1..n |-> [id |-> i, val |-> "a", deleted |-> FALSE]]

NewMetadata(ipp, cp) ==
    [ItemsPerPage |-> ipp, ItemCount |-> I(0), TotalItem |-> I(0),
     CurrentPage |-> cp, TotalPage |-> I(0)]

InitPagination ==
    /\ meta \in {NewMetadata(ipp, cp) : ipp \in RawItemsPerPage, cp \in RawCurrentPage}
    /\ table \in {TableOfSize(n) : n \in ListSizes}
    /\ entities = <<>>
    /\ call = NoCall
    /\ tx = NoTx
    /\ ent = NoEntity
    /\ cache = NoCache

CallGetItemPerPage ==
    LET r == GetItemPerPage(meta)
    IN  /\ meta' = r.p
        /\ call' = [NoCall EXCEPT !.op = "GetItemPerPage", !.pre = meta, !.ret = r.ret,
                                  !.got = TRUE]
        /\ UNCHANGED <<table, entities, tx, ent, cache>>

CallGetCurrentPage ==
    LET r == GetCurrentPage(meta)
    IN  /\ meta' = r.p
        /\ call' = [NoCall EXCEPT !.op = "GetCurrentPage", !.pre = meta, !.ret = r.ret,
                                  !.got = call.got]
        /\ UNCHANGED <<table, entities, tx, ent, cache>>

CallGetOffset ==
    LET r == GetOffset(meta)
    IN  /\ meta' = r.p
        /\ call' = [NoCall EXCEPT !.op = "GetOffset", !.pre = meta, !.ret = r.ret,
                                  !.got = TRUE]
        /\ UNCHANGED <<table, entities, tx, ent, cache>>

CallCalItemPerPage ==
    /\ meta' = CalItemPerPage(meta)
    /\ call' = [NoCall EXCEPT !.op = "CalItemPerPage", !.pre = meta, !.got = call.got]
    /\ UNCHANGED <<table, entities, tx, ent, cache>>

CallFindAll ==
    \E countOk \in BOOLEAN, findOk \in BOOLEAN :
        LET r == FindAll(meta, table, entities, countOk, findOk)
        IN  /\ meta' = r.p
            /\ entities' = r.out
            /\ call' = [NoCall EXCEPT !.op = "FindAll", !.pre = meta, !.ret = r.offset,
                                      !.limit = r.limit,
                                      !.err = r.err, !.countOk = countOk,
                                      !.findOk = findOk, !.got = TRUE]
            /\ UNCHANGED <<table, tx, ent, cache>>

NextPagination ==
    \/ CallGetItemPerPage
    \/ CallGetCurrentPage
    \/ CallGetOffset
    \/ CallCalItemPerPage
    \/ CallFindAll

SpecPagination == InitPagination /\ [][NextPagination]_vars

MaxFns == 2

TxIds == {1, 2}

Fns == [id : TxIds, val : {"b"}, res : FnResults]

RECURSIVE SeqsUpTo(_, _)
SeqsUpTo(S, n) ==
    IF n = 0 THEN {<<>>}
    ELSE LET shorter == SeqsUpTo(S, n - 1)
         IN  shorter \cup {Append(q, e) : q \in {r \in shorter : Len(r) = n - 1}, e \in S}

InitTransaction ==
    /\ meta = NewMetadata(I(0), I(0))
    /\ table \in {<<>>, TableOfSize(1)}
    /\ entities = <<>>
    /\ call = NoCall
    /\ tx = NoTx
    /\ ent = NoEntity
    /\ cache = NoCache

CallWithTransaction ==
    /\ tx.pc = "idle"
    /\ \E fns \in SeqsUpTo(Fns, MaxFns) : tx' = Begin(fns, table)
    /\ UNCHANGED <<meta, table, entities, call, ent, cache>>

StepRunFn ==
    /\ tx.pc = "loop"
    /\ tx.i <= Len(tx.fns)
    /\ tx' = RunFn(tx)
    /\ UNCHANGED <<meta, table, entities, call, ent, cache>>

StepLoopDone ==
    /\ tx.pc = "loop"
    /\ tx.i > Len(tx.fns)
    /\ tx' = LoopDone(tx)
    /\ UNCHANGED <<meta, table, entities, call, ent, cache>>

StepDeferred ==
    /\ tx.pc = "defer"
    /\ \E commitOk \in BOOLEAN :
           /\ tx' = Deferred(tx, commitOk)
           /\ table' = Stored(table, tx')
    /\ UNCHANGED <<meta, entities, call, ent, cache>>

\* the call is over (returned or panicked); the caller goes on
StepCallOver ==
    /\ tx.pc = "done"
    /\ tx' = NoTx
    /\ UNCHANGED <<meta, table, entities, call, ent, cache>>

NextTransaction ==
    \/ CallWithTransaction
    \/ StepRunFn
    \/ StepLoopDone
    \/ StepDeferred
    \/ StepCallOver

SpecTransaction == InitTransaction /\ [][NextTransaction]_vars

MaxIds == 2

UUIDs == 1..MaxIds

EntityVals == {"", "a"}

Entities == [kind : EntityKinds, ID : {NilID} \cup UUIDs, val : EntityVals]

CrudCall(op, id, r) ==
    [op |-> op, id |-> id, pre |-> ent, preTable |-> table, err |-> r.err]

InitCrud ==
    /\ meta = NewMetadata(I(0), I(0))
    /\ table = <<>>
    /\ entities = <<>>
    /\ call = NoCall
    /\ tx = NoTx
    /\ ent \in Entities
    /\ cache = NoCache

\* the caller takes another entity value of the repository's type
CallNewEntity ==
    /\ \E e \in Entities : e.kind = ent.kind /\ ent' = e
    /\ call' = [op |-> "NewEntity", id |-> NilID, pre |-> ent, preTable |-> table,
                err |-> "nil"]
    /\ UNCHANGED <<meta, table, entities, tx, cache>>

CallBeforeCreate ==
    \E u \in UUIDs :
        /\ ent' = BeforeCreate(ent, u)
        /\ call' = [op |-> "BeforeCreate", id |-> NilID, pre |-> ent, preTable |-> table,
                    err |-> "nil"]
        /\ UNCHANGED <<meta, table, entities, tx, cache>>

CallCreate ==
    \E u \in UUIDs :
        LET r == Create(table, ent, u)
        IN  /\ table' = r.t
            /\ ent' = r.e
            /\ call' = CrudCall("Create", NilID, r)
            /\ UNCHANGED <<meta, entities, tx, cache>>

CallFindOne ==
    \E id \in UUIDs :
        LET r == FindOne(table, id, ent)
        IN  /\ table' = r.t
            /\ ent' = r.e
            /\ call' = CrudCall("FindOne", id, r)
            /\ UNCHANGED <<meta, entities, tx, cache>>

CallUpdate ==
    \E id \in UUIDs :
        LET r == Update(table, id, ent)
        IN  /\ table' = r.t
            /\ ent' = r.e
            /\ call' = CrudCall("Update", id, r)
            /\ UNCHANGED <<meta, entities, tx, cache>>

CallDelete ==
    \E id \in UUIDs :
        LET r == Delete(table, id, ent)
        IN  /\ table' = r.t
            /\ ent' = r.e
            /\ call' = CrudCall("Delete", id, r)
            /\ UNCHANGED <<meta, entities, tx, cache>>

NextCrud ==
    \/ CallNewEntity
    \/ CallBeforeCreate
    \/ CallCreate
    \/ CallFindOne
    \/ CallUpdate
    \/ CallDelete

SpecCrud == InitCrud /\ [][NextCrud]_vars

MaxTTL == 2

TTLs == (0 - 1)..MaxTTL

Impls == {"legacy", "current"}

FieldMaps == [Fields -> HashVals \cup {Nil}]

NoCacheCall ==
    [op |-> "none", key |-> "", field |-> "", ttl |-> 0, arg |-> NoValue, m |-> NoFields,
     pre |-> [k \in Keys |-> Absent], out |-> NoValue, str |-> "", map |-> NoFields,
     ok |-> FALSE, expire |-> FALSE, err |-> "nil"]

CacheCall(op, k, r) ==
    [NoCacheCall EXCEPT !.op = op, !.key = k, !.pre = cache.data, !.err = r.err]

InitCache ==
    /\ meta = NewMetadata(I(0), I(0))
    /\ table = <<>>
    /\ entities = <<>>
    /\ call = NoCacheCall
    /\ tx = NoTx
    /\ ent = NoEntity
    /\ \E impl \in Impls : cache = [impl |-> impl, data |-> [k \in Keys |-> Absent]]

CallSaveCache ==
    \E k \in Keys, v \in Values, ttl \in TTLs :
        LET r == SaveCache(cache.data, k, v, ttl)
        IN  /\ cache' = [cache EXCEPT !.data = r.d]
            /\ call' = [CacheCall("SaveCache", k, r) EXCEPT !.arg = v, !.ttl = ttl]
            /\ UNCHANGED <<meta, table, entities, tx, ent>>

CallSaveHashCache ==
    \E k \in Keys, f \in Fields, v \in HashVals, ttl \in TTLs :
        LET r == SaveHashCache(cache.impl, cache.data, k, f, v, ttl)
        IN  /\ cache' = [cache EXCEPT !.data = r.d]
            /\ call' = [CacheCall("SaveHashCache", k, r) EXCEPT
                           !.field = f, !.m = OneField(f, v), !.ttl = ttl,
                           !.expire = r.expire]
            /\ UNCHANGED <<meta, table, entities, tx, ent>>

CallSaveAllHashCache ==
    \E k \in Keys, m \in FieldMaps, ttl \in TTLs :
        LET r == SaveAllHashCache(cache.impl, cache.data, k, m, ttl)
        IN  /\ cache' = [cache EXCEPT !.data = r.d]
            /\ call' = [CacheCall("SaveAllHashCache", k, r) EXCEPT
                           !.m = m, !.ttl = ttl, !.expire = r.expire]
            /\ UNCHANGED <<meta, table, entities, tx, ent>>

CallGetHashCache ==
    \E k \in Keys, f \in Fields :
        LET r == GetHashCache(cache.data, k, f)
        IN  /\ call' = [CacheCall("GetHashCache", k, r) EXCEPT !.field = f, !.str = r.str]
            /\ UNCHANGED <<meta, table, entities, tx, ent, cache>>

CallGetAllHashCache ==
    \E k \in Keys :
        LET r == GetAllHashCache(cache.data, k)
        IN  /\ call' = [CacheCall("GetAllHashCache", k, r) EXCEPT !.map = r.map]
            /\ UNCHANGED <<meta, table, entities, tx, ent, cache>>

\* redis.go has no RemoveHashCache
CallRemoveHashCache ==
    /\ cache.impl = "current"
    /\ \E k \in Keys, f \in Fields :
        LET r == RemoveHashCache(cache.data, k, f)
        IN  /\ cache' = [cache EXCEPT !.data = r.d]
            /\ call' = [CacheCall("RemoveHashCache", k, r) EXCEPT !.field = f]
            /\ UNCHANGED <<meta, table, entities, tx, ent>>

CallGetCache ==
    \E k \in Keys, out \in Values :
        LET r == GetCache(cache.data, k, out)
        IN  /\ call' = [CacheCall("GetCache", k, r) EXCEPT !.arg = out, !.out = r.out]
            /\ UNCHANGED <<meta, table, entities, tx, ent, cache>>

CallRemoveCache ==
    \E k \in Keys :
        LET r == RemoveCache(cache.data, k)
        IN  /\ cache' = [cache EXCEPT !.data = r.d]
            /\ call' = CacheCall("RemoveCache", k, r)
            /\ UNCHANGED <<meta, table, entities, tx, ent>>

CallSetExpire ==
    \E k \in Keys, ttl \in TTLs :
        LET r == SetExpire(cache.data, k, ttl)
        IN  /\ cache' = [cache EXCEPT !.data = r.d]
            /\ call' = [CacheCall("SetExpire", k, r) EXCEPT !.ttl = ttl]
            /\ UNCHANGED <<meta, table, entities, tx, ent>>

\* redis.go has no Exist
CallExist ==
    /\ cache.impl = "current"
    /\ \E k \in Keys :
        LET r == Exist(cache.data, k)
        IN  /\ call' = [CacheCall("Exist", k, r) EXCEPT !.ok = r.ok]
            /\ UNCHANGED <<meta, table, entities, tx, ent, cache>>

Tick ==
    /\ \E k \in Keys : cache.data[k].ttl > 0
    /\ cache' = [cache EXCEPT !.data = Expiry(cache.data)]
    /\ call' = [NoCacheCall EXCEPT !.op = "Tick", !.pre = cache.data]
    /\ UNCHANGED <<meta, table, entities, tx, ent>>

NextCache ==
    \/ CallSaveCache
    \/ CallSaveHashCache
    \/ CallSaveAllHashCache
    \/ CallGetHashCache
    \/ CallGetAllHashCache
    \/ CallRemoveHashCache
    \/ CallGetCache
    \/ CallRemoveCache
    \/ CallSetExpire
    \/ CallExist
    \/ Tick

SpecCache == InitCache /\ [][NextCache]_vars

----------------------------------------------------------------------------
(* Properties of PaginationMetadata and FindAll.  call.got records that    *)
(* GetItemPerPage has run on the metadata, by itself or within GetOffset   *)
(* or the Pagination scope of FindAll.                                     *)

\* x < n for an int x and a small integer n, read off the value of x
Below(x, n) == IF IsSmall(x) THEN Val(x) < n ELSE IsNeg(x)

ClampItems(v) ==
    IF Below(v, 10) THEN I(10) ELSE IF ~Below(v, 101) THEN I(100) ELSE v

ClampPage(v) == IF Below(v, 1) THEN I(1) ELSE v

\* C5: GetItemPerPage returns 10 for a stored value below 10, 100 for one above
\* 100 and the stored value otherwise, and leaves the stored ItemsPerPage equal
\* to what it returned.
C5_GetItemPerPageClamps ==
    call.op = "GetItemPerPage" =>
        LET v == call.pre.ItemsPerPage
        IN  /\ Below(v, 10) => call.ret = I(10)
            /\ ~Below(v, 101) => call.ret = I(100)
            /\ ~Below(v, 10) /\ Below(v, 101) => call.ret = v
            /\ meta.ItemsPerPage = call.ret

C5_Witness ==
    /\ call.op = "GetItemPerPage"
    /\ call.pre.ItemsPerPage = I(101)
    /\ call.ret = I(100)
    /\ meta.ItemsPerPage = I(100)

\* C6: GetCurrentPage returns 1 for a stored value below 1 and the stored value
\* otherwise, and leaves the stored CurrentPage equal to what it returned.
C6_GetCurrentPageClamps ==
    call.op = "GetCurrentPage" =>
        LET v == call.pre.CurrentPage
        IN  /\ Below(v, 1) => call.ret = I(1)
            /\ ~Below(v, 1) => call.ret = v
            /\ meta.CurrentPage = call.ret

C6_Witness ==
    /\ call.op = "GetCurrentPage"
    /\ call.pre.CurrentPage = I(0)
    /\ call.ret = I(1)
    /\ meta.CurrentPage = I(1)

\* C7: GetOffset returns (clamped current page - 1) * (clamped items per page),
\* the clamps taken of the values stored when it was called; the product is the
\* machine's, and is the integers' product wherever that fits.
C7_GetOffsetFormula ==
    call.op = "GetOffset" =>
        LET cp  == ClampPage(call.pre.CurrentPage)
            ipp == ClampItems(call.pre.ItemsPerPage)
        IN  /\ call.ret = Mul(Sub(cp, I(1)), ipp)
            /\ IsSmall(cp) /\ IsSmall(call.ret) =>
                   Val(call.ret) = (Val(cp) - 1) * Val(ipp)

C7_Witness ==
    /\ call.op = "GetOffset"
    /\ call.pre.CurrentPage = I(5)
    /\ call.pre.ItemsPerPage = I(0)
    /\ call.ret = I(40)

\* C8: GetOffset never returns a negative integer, whatever int values are
\* stored in CurrentPage and ItemsPerPage.
C8_GetOffsetNonNegative ==
    call.op = "GetOffset" => ~IsNeg(call.ret)

\* C9: after FindAll's count, TotalPage is the ceiling of TotalItem over the
\* clamped items-per-page value: the least k with k * perPage >= TotalItem; 47
\* items at 10 per page are 5 pages and no items are 0 pages.
C9_TotalPageIsCeiling ==
    call.op = "FindAll" =>
        LET n == Val(meta.TotalItem)
            d == Val(ClampItems(call.pre.ItemsPerPage))
            k == Val(meta.TotalPage)
        IN  /\ call.countOk => n = Len(table)
            /\ d \in 10..100
            /\ IsSmall(meta.TotalPage) /\ k >= 0
            /\ k * d >= n
            /\ (k - 1) * d < n
            /\ n = 47 /\ d = 10 => k = 5
            /\ n = 0 => k = 0

C9_Witness ==
    /\ call.op = "FindAll"
    /\ call.pre.ItemsPerPage = I(10)
    /\ meta.TotalItem = I(47)
    /\ meta.TotalPage = I(5)

\* C10: a successful FindAll fetches with offset GetOffset() and limit the
\* clamped items-per-page value, and sets ItemCount to the number of records
\* returned, so 0 <= ItemCount <= clamped ItemsPerPage, which is in 10..100.
C10_ItemCountWithinPage ==
    call.op = "FindAll" /\ call.err = "nil" =>
        LET cp  == ClampPage(call.pre.CurrentPage)
            ipp == ClampItems(call.pre.ItemsPerPage)
            c   == Val(meta.ItemCount)
        IN  /\ call.ret = Mul(Sub(cp, I(1)), ipp)
            /\ call.limit = ipp
            /\ Val(ipp) \in 10..100
            /\ IsSmall(meta.ItemCount) /\ c = Len(entities)
            /\ 0 <= c /\ c <= Val(ipp)
            /\ IsSmall(call.ret) /\ ~IsNeg(call.ret) =>
                   /\ c <= Len(table) - Val(call.ret) \/ c = 0
                   /\ \A i \in 1..c : entities[i] = table[Val(call.ret) + i]

C10_Witness ==
    /\ call.op = "FindAll"
    /\ call.err = "nil"
    /\ call.pre.ItemsPerPage = MaxInt
    /\ call.pre.CurrentPage = I(2)
    /\ Len(table) = 120
    /\ meta.ItemCount = I(20)
    /\ entities[1].id = 101

----------------------------------------------------------------------------
(* Properties of WithTransaction *)

\* the index of the function that returned an error, or 0
ErrorAt == IF tx.calls # <<>> /\ tx.fns[tx.calls[Len(tx.calls)]].res = "error"
           THEN tx.calls[Len(tx.calls)] ELSE 0

\* the index of the function that panicked, or 0
PanicAt == IF tx.calls # <<>> /\ tx.fns[tx.calls[Len(tx.calls)]].res = "panic"
           THEN tx.calls[Len(tx.calls)] ELSE 0

\* C1: when a supplied function returns an error, the changes of the functions
\* that ran before it are rolled back: after the call the store is as it was
\* before the call.
C1_ErrorRollsBack ==
    tx.pc = "done" /\ ErrorAt # 0 =>
        /\ table = tx.before
        /\ tx.state = "rolledback"

C1_Witness ==
    /\ tx.pc = "done"
    /\ ErrorAt = 2
    /\ tx.fns[1].res = "nil"
    /\ Put(tx.before, tx.fns[1].id, tx.fns[1].val) # tx.before
    /\ table = tx.before

\* C2: when a supplied function returns an error e, the call rolls back and
\* returns that same e to its caller as its return value.
C2_ErrorIsReturned ==
    tx.pc = "done" /\ ErrorAt # 0 =>
        /\ tx.outcome = "return"
        /\ tx.value = <<"error", ErrorAt>>

C4_CommitFailureIsReturned ==
    tx.pc = "done" /\ tx.state = "failed" =>
        /\ tx.outcome = "return"
        /\ tx.value # <<>>

\* C11: FindAll returns an error whenever the count query or the fetch query
\* fails; it never reports success after a failed count.
C11_FindAllFailsWhenCountFails ==
    call.op = "FindAll" /\ (~call.countOk \/ ~call.findOk) => call.err # "nil"

----------------------------------------------------------------------------
(* Properties of the entities and of CRUD *)

\* C12: BeforeCreate gives an entity without an ID a generated one and leaves
\* an ID that is set as it is, so no run of BeforeCreate changes an assigned ID.
C12_IdAssignedOnce ==
    call.op \in {"BeforeCreate", "Create"} =>
        /\ call.pre.ID = NilID => ent.ID \in UUIDs
        /\ call.pre.ID # NilID => ent.ID = call.pre.ID
        /\ ent.val = call.pre.val

C12_Witness ==
    /\ call.op = "BeforeCreate"
    /\ call.pre.ID # NilID
    /\ ent.ID = call.pre.ID
    /\ \E u \in UUIDs : u # ent.ID

\* C13: Update(id, entity) with no record id returns record-not-found and
\* leaves the store as it was.
C13_UpdateMissing ==
    call.op = "Update" /\ ~HasRow(call.preTable, call.id) =>
        /\ call.err = "RecordNotFound"
        /\ table = call.preTable

C13_Witness ==
    /\ call.op = "Update"
    /\ ~HasRow(call.preTable, call.id)
    /\ call.preTable # <<>>
    /\ call.pre.val # ""
    /\ call.err = "RecordNotFound"

\* C14: Delete(id, entity) fails with record-not-found exactly when no record
\* id exists, and then removes nothing; when the record exists it is read into
\* the entity and removed, so that FindOne(id) then fails with record-not-found.
C14_DeleteReadsThenRemoves ==
    call.op = "Delete" =>
        /\ call.err = "RecordNotFound" <=> ~HasRow(call.preTable, call.id)
        /\ ~HasRow(call.preTable, call.id) => table = call.preTable /\ ent = call.pre
        /\ HasRow(call.preTable, call.id) =>
               /\ call.err = "nil"
               /\ ent = Scan(call.pre, RowOf(call.preTable, call.id))
               /\ FindOne(table, call.id, ent).err = "RecordNotFound"
               /\ \A id \in UUIDs \ {call.id} :
                      HasRow(table, id) <=> HasRow(call.preTable, id)

C14_Witness ==
    /\ call.op = "Delete"
    /\ HasRow(call.preTable, call.id)
    /\ Len(Visible(call.preTable)) = 2
    /\ Len(Visible(table)) = 1
    /\ call.err = "nil"

----------------------------------------------------------------------------
(* Properties of the cache *)

TargetAbsent ==
    \/ call.pre[call.key].type = "none"
    \/ /\ call.op = "RemoveHashCache"
       /\ call.pre[call.key].type = "hash"
       /\ call.pre[call.key].fields[call.field] = Nil

\* C16: RemoveCache and RemoveHashCache return no error when their target is
\* already absent and then change nothing, and a second call right after a
\* successful one returns no error and leaves the store as the first left it.
C16_RemoveIdempotent ==
    /\ call.op = "RemoveCache" =>
          /\ call.err = "nil"
          /\ TargetAbsent => cache.data = call.pre
          /\ RemoveCache(cache.data, call.key) = [d |-> cache.data, err |-> "nil"]
    /\ call.op = "RemoveHashCache" =>
          /\ TargetAbsent => call.err = "nil" /\ cache.data = call.pre
          /\ call.err = "nil" =>
                RemoveHashCache(cache.data, call.key, call.field)
                    = [d |-> cache.data, err |-> "nil"]

C16_Witness ==
    /\ call.op = "RemoveHashCache"
    /\ call.pre[call.key].type = "hash"
    /\ call.pre[call.key].fields[call.field] = Nil
    /\ call.err = "nil"
    /\ cache.data = call.pre

\* the fields of the call are in the hash with the values given
FieldsSet ==
    /\ cache.data[call.key].type = "hash"
    /\ \A f \in Fields : call.m[f] # Nil => cache.data[call.key].fields[f] = call.m[f]

\* C17: a successful SaveHashCache or SaveAllHashCache sets the fields; with
\* ttl > 0 the key then expires in ttl, with ttl <= 0 no expire command is
\* issued and the key keeps the expiration it had.
C17_HashTtl ==
    call.op \in {"SaveHashCache", "SaveAllHashCache"} /\ call.err = "nil" =>
        /\ call.ttl > 0 => FieldsSet /\ cache.data[call.key].ttl = call.ttl
        /\ call.ttl <= 0 =>
              /\ FieldsSet
              /\ ~call.expire
              /\ cache.data[call.key].ttl = call.pre[call.key].ttl

\* C18: GetHashCache of an absent key or field and GetAllHashCache of an absent
\* key return an error.
C18_HashNotFound ==
    /\ call.op = "GetHashCache" /\ call.pre[call.key].type # "string"
          /\ call.pre[call.key].fields[call.field] = Nil => call.err # "nil"
    /\ call.op = "GetAllHashCache" /\ call.pre[call.key].type = "none" => call.err # "nil"

----------------------------------------------------------------------------
(* Further properties of WithTransaction *)

\* C19: the supplied functions are invoked in the order given, each at most
\* once, each with the handle that Begin returned, and none is invoked after one
\* that returned an error.
C19_FnsInOrder ==
    /\ Len(tx.calls) <= Len(tx.fns)
    /\ Len(tx.handles) = Len(tx.calls)
    /\ \A k \in 1..Len(tx.calls) :
          /\ tx.calls[k] = k
          /\ tx.handles[k] = tx.handle
          /\ k < Len(tx.calls) => tx.fns[k].res = "nil"

C19_Witness ==
    /\ tx.pc = "done"
    /\ Len(tx.fns) = 2
    /\ tx.fns[1].res = "error"
    /\ tx.calls = <<1>>
    /\ tx.handles = <<"tx">>

\* a commit was attempted after the call had rolled the transaction back
CommitAfterRollback ==
    \E i, j \in 1..Len(tx.log) :
        /\ i < j
        /\ tx.log[i] = "Rollback"
        /\ tx.log[j] \in {"Commit", "CommitDone", "CommitFailed"}

\* C20: when the call is over the transaction is not open, it is committed only
\* if every supplied function ran and returned nil, and no commit was attempted
\* after a rollback.
C20_ClosedAndNoCommitAfterRollback ==
    tx.pc = "done" =>
        /\ tx.state # "open"
        /\ tx.state = "committed" =>
              /\ Len(tx.calls) = Len(tx.fns)
              /\ \A k \in 1..Len(tx.fns) : tx.fns[k].res = "nil"
        /\ ~CommitAfterRollback

----------------------------------------------------------------------------
(* Further properties of CRUD *)

\* C21: a successful Update(id, entity) writes the entity's non-zero fields to
\* the record id and to no other record, adds and removes none, and leaves in
\* entity that record as it is read back.
C21_UpdateChangesOnlyId ==
    call.op = "Update" /\ call.err = "nil" =>
        /\ Len(table) = Len(call.preTable)
        /\ \A k \in 1..Len(call.preTable) :
              IF call.preTable[k].id = call.id /\ ~call.preTable[k].deleted
              THEN table[k] =
                       [call.preTable[k] EXCEPT
                           !.val = IF call.pre.val # "" THEN call.pre.val ELSE @]
              ELSE table[k] = call.preTable[k]
        /\ HasRow(table, call.id)
        /\ ent = Scan(call.pre, RowOf(table, call.id))

C21_Witness ==
    /\ call.op = "Update"
    /\ call.err = "nil"
    /\ Len(Visible(call.preTable)) = 2
    /\ table # call.preTable
    /\ call.pre.ID # call.id
    /\ ent.ID = call.id
    /\ ent.val = call.pre.val

----------------------------------------------------------------------------
(* Further properties of PaginationMetadata *)

\* C22: once GetItemPerPage has been called, the stored ItemsPerPage lies in
\* [10, 100] in every later state, whatever calls of GetItemPerPage,
\* GetCurrentPage, GetOffset, CalItemPerPage and FindAll follow.
C22_ItemsPerPageStaysNormalized ==
    call.got =>
        /\ ~Below(meta.ItemsPerPage, MinItemsPerPage)
        /\ Below(meta.ItemsPerPage, MaxItemsPerPage + 1)

====
